---- MODULE Spec2Model ----
(***************************************************************************)
(* Jacketed-reactor thermal network simulator                              *)
(* ("OBX heating/OBX heat up and down simulation V2.py").                  *)
(*                                                                         *)
(* Numbers.  The script computes in Python floats.  The two engine         *)
(* functions are modelled in exact rational arithmetic: a number is a      *)
(* pair <<n, d>> in lowest terms with d > 0.  Configuration values that    *)
(* the script writes as plain numbers are integers here and are lifted     *)
(* with I(_) where they enter a formula.  A float has finite precision:    *)
(* where the simulation loop stores a temperature in T_oil, T_jacket or    *)
(* T_reactor the value is rounded to the nearest point of a grid, fl(_),   *)
(* which is coarser than a double but keeps the run finite.                *)
(***************************************************************************)
EXTENDS Integers, Sequences, FiniteSets, TLC

VARIABLES
    design,              \* the design dict (duties, temperatures, U_values, areas)
    cp,                  \* specific heats
    m_dot_oil,           \* oil mass flow, kg/s
    thermal_mass,        \* thermal_mass dict, J/K
    dt,                  \* timestep, s
    end_time,            \* end of the run, s
    K_p,                 \* proportional gain
    float_format,        \* how a stored float is rounded: "grid" or "binary"
    t,                   \* loop variable of the simulation loop
    status,              \* "heating" | "reaction" | "cooling"
    reaction_start_time, \* None or the t at which reaction was entered
    T_oil, T_jacket, T_reactor,
    results,             \* sequence of logged rows
    pc,                  \* driver: "loop" | "done"; one engine call: "engine" | "returned"
    call,                \* arguments of the last engine call
    ret                  \* value it returned

vars == <<design, cp, m_dot_oil, thermal_mass, dt, end_time, K_p, float_format, t, status,
          reaction_start_time, T_oil, T_jacket, T_reactor, results, pc, call, ret>>

config == <<design, cp, m_dot_oil, thermal_mass, dt, end_time, K_p, float_format>>
driver == <<t, status, reaction_start_time, T_oil, T_jacket, T_reactor, results>>

(* Python's None, and a present value: None is <<>>, a value v is <<v>>.     *)
None == <<>>
Some(v) == <<v>>

-----------------------------------------------------------------------------
(* Bounds of the explored inputs.                                          *)
MaxTemp == 3        \* engine temperatures range over 0, 1/2, ..., MaxTemp
MaxCap == 3         \* thermal masses passed to the exchange: 1..MaxCap
MaxU == 2           \* U values: 1..MaxU
MaxDt == 2          \* timestep: 1..MaxDt
MaxDuty == 3        \* device caps: None, -1, 0, ..., MaxDuty
MaxAmbient == 2     \* ambient temperature: 1..MaxAmbient
MaxFlow == 2        \* oil mass flow: 1..MaxFlow
MaxHold == 2        \* reaction_time: 0, dt, ..., MaxHold*dt
MaxReactorMax == 4  \* reactor_max_temp: 3..MaxReactorMax
MaxSteps == 12      \* end_time: MaxSteps*dt
Resolution == 8     \* stored temperatures lie on the grid of 1/Resolution

-----------------------------------------------------------------------------
(* Numbers.  A Python int, and any value computed from ints alone, is an   *)
(* exact rational <<n, d>> in lowest terms with d > 0.  A Python float is  *)
(* a binary floating-point value <<m, e, 2>> standing for m * 2^e, with    *)
(* m = 0 or 2^23 <= |m| < 2^24.  An operation on two exact values is       *)
(* exact; an operation with a float operand converts the other operand and *)
(* rounds its result to 24 significant bits, as int-with-float arithmetic  *)
(* does in Python at its own precision.                                    *)
Abs(a) == IF a < 0 THEN -a ELSE a
Sign(a) == IF a < 0 THEN -1 ELSE 1

RECURSIVE GCD(_, _)
GCD(a, b) == IF b = 0 THEN a ELSE GCD(b, a % b)

Rat(n, d) ==
    LET g == GCD(Abs(n), Abs(d))
        s == IF d < 0 THEN -1 ELSE 1
    IN  <<(s * n) \div g, (s * d) \div g>>

I(n) == <<n, 1>>
Zero == I(0)

(* An operator applied to the values of its arguments: each argument is    *)
(* evaluated once, then the operator works on the values.                  *)
Val1(Op(_), x) == CHOOSE r \in {Op(a) : a \in {x}} : TRUE
Val2(Op(_, _), x, y) == CHOOSE r \in {Op(a, b) : a \in {x}, b \in {y}} : TRUE
Val3(Op(_, _, _), x, y, z) ==
    CHOOSE r \in {Op(a, b, c) : a \in {x}, b \in {y}, c \in {z}} : TRUE

(* The number of bits of m, for 0 < m < 2^30.                              *)
BitLen(m) == CHOOSE k \in 1 .. 30 : m \div 2^(k - 1) = 1

(* The float nearest to s * m * 2^e, for s = 1 or -1 and 0 <= m < 2^30,    *)
(* where m has k bits.                                                     *)
FRound(m, e, k) ==
    IF k <= 24
    THEN <<m * 2^(24 - k), e - (24 - k), 2>>
    ELSE IF (m + 2^(k - 25)) \div 2^(k - 24) = 2^24
    THEN <<2^23, e + k - 23, 2>>
    ELSE <<(m + 2^(k - 25)) \div 2^(k - 24), e + k - 24, 2>>

FNeg(x) == <<-x[1], x[2], 2>>

FNormOf(s, m, e) ==
    IF m = 0 THEN <<0, 0, 2>>
    ELSE Val1(LAMBDA f : <<s * f[1], f[2], 2>>, Val3(FRound, m, e, BitLen(m)))

FNorm(s, m, e) == Val3(FNormOf, s, m, e)

FInt(k) == FNorm(Sign(k), Abs(k), 0)

(* Sum of two floats: the operand of smaller exponent is aligned to the    *)
(* other with five guard bits.                                             *)
FSum(big, small) ==
    IF big[2] - small[2] > 25 THEN big
    ELSE LET S == big[1] * 32
                  + Sign(small[1])
                    * ((Abs(small[1]) * 32) \div 2^(big[2] - small[2]))
         IN  FNorm(Sign(S), Abs(S), big[2] - 5)

FAdd(x, y) ==
    IF x[1] = 0 THEN y
    ELSE IF y[1] = 0 THEN x
    ELSE IF x[2] >= y[2] THEN FSum(x, y)
    ELSE FSum(y, x)

(* Product of two floats: the top 30 bits of the 48-bit product of the     *)
(* mantissas, from their 12-bit halves.                                    *)
FMul(x, y) ==
    IF x[1] = 0 \/ y[1] = 0 THEN <<0, 0, 2>>
    ELSE LET a == Abs(x[1])
             b == Abs(y[1])
             a1 == a \div 4096
             a0 == a % 4096
             b1 == b \div 4096
             b0 == b % 4096
             hi == a1 * b1 * 64
                   + (a1 * b0 + a0 * b1 + (a0 * b0) \div 4096) \div 64
         IN  FNorm(Sign(x[1]) * Sign(y[1]), hi, x[2] + y[2] + 18)

(* Long division: n more groups of seven quotient bits, from quotient q    *)
(* and remainder r, by the divisor b.                                      *)
RECURSIVE LongDiv(_, _, _, _)
LongDiv(q, r, b, n) ==
    IF n = 0 THEN q
    ELSE Val2(LAMBDA q1, r1 : LongDiv(q1, r1, b, n - 1),
              q * 128 + (r * 128) \div b, (r * 128) % b)

(* Quotient of two floats (y not zero): 28 fraction bits of the quotient   *)
(* of the mantissas.                                                       *)
FDiv(x, y) ==
    IF x[1] = 0 THEN <<0, 0, 2>>
    ELSE FNorm(Sign(x[1]) * Sign(y[1]),
               LongDiv(Abs(x[1]) \div Abs(y[1]), Abs(x[1]) % Abs(y[1]),
                       Abs(y[1]), 4),
               x[2] - y[2] - 28)

(* A number as a float: a float as it is, an exact value converted.        *)
ToF(x) ==
    IF Len(x) = 3 THEN x
    ELSE Val2(FDiv, FInt(x[1]), FInt(x[2]))

Exact(x, y) == Len(x) = 2 /\ Len(y) = 2

(* The arithmetic of two numbers given as values.                          *)
Add(x, y) ==
    IF Exact(x, y) THEN Rat(x[1] * y[2] + y[1] * x[2], x[2] * y[2])
    ELSE Val2(FAdd, ToF(x), ToF(y))
Sub(x, y) ==
    IF Exact(x, y) THEN Rat(x[1] * y[2] - y[1] * x[2], x[2] * y[2])
    ELSE Val2(FAdd, ToF(x), FNeg(ToF(y)))
Mul(x, y) ==
    IF Exact(x, y) THEN Rat(x[1] * y[1], x[2] * y[2])
    ELSE Val2(FMul, ToF(x), ToF(y))
Div(x, y) ==
    IF Exact(x, y) THEN Rat(x[1] * y[2], x[2] * y[1])
    ELSE Val2(FDiv, ToF(x), ToF(y))
Lt(x, y) ==
    IF Exact(x, y) THEN x[1] * y[2] < y[1] * x[2]
    ELSE Val2(FAdd, ToF(x), FNeg(ToF(y)))[1] < 0
Le(x, y) ==
    IF Exact(x, y) THEN x[1] * y[2] <= y[1] * x[2]
    ELSE Val2(FAdd, ToF(x), FNeg(ToF(y)))[1] <= 0

RAdd(x, y) == Val2(Add, x, y)
RSub(x, y) == Val2(Sub, x, y)
RMul(x, y) == Val2(Mul, x, y)
RDiv(x, y) == Val2(Div, x, y)
RLt(x, y) == Val2(Lt, x, y)
RLe(x, y) == Val2(Le, x, y)
RMax(x, y) == Val2(LAMBDA a, b : IF Lt(a, b) THEN b ELSE a, x, y)
RMin(x, y) == Val2(LAMBDA a, b : IF Lt(b, a) THEN b ELSE a, x, y)

(* A value as the driver stores it: a float.  In the "grid" format an      *)
(* exact value is rounded to the nearest multiple of 1/Resolution, ties    *)
(* upward; in the "binary" format it is converted to a binary float.       *)
fl(x) ==
    IF Len(x) = 3 THEN x
    ELSE IF float_format = "binary" THEN ToF(x)
    ELSE Rat((2 * x[1] * Resolution + x[2]) \div (2 * x[2]), Resolution)

-----------------------------------------------------------------------------
(* 1. Physical constants.                                                  *)
approach_temp == Rat(1, 2)

ExchangerNames == {"heater_oil", "oil_jacket", "jacket_reactor", "cooler_oil"}
ComponentNames == {"pipe", "jacket", "reactor"}
OutsideNames == {"pipe_outside", "jacket_outside", "reactor_outside"}
key_outside(component_name) ==
    CASE component_name = "pipe" -> "pipe_outside"
      [] component_name = "jacket" -> "jacket_outside"
      [] component_name = "reactor" -> "reactor_outside"

-----------------------------------------------------------------------------
(* 5. Heat transfer functions.                                             *)

(* Variant: the loss clamped at zero, so a node below ambient gains nothing. *)
calculate_insulation_loss_clamped(component_name, T_current) ==
    LET U == design.U_values[key_outside(component_name)]
        A == design.heat_exchange_areas[key_outside(component_name)]
        Q_loss == RMax(RMul(RMul(U, A), RSub(T_current, I(design.ambient_temp))),
                       Zero)
        T_updated ==
            IF component_name = "pipe"
            THEN RSub(T_current, RDiv(Q_loss, RMul(m_dot_oil, cp.oil)))
            ELSE RSub(T_current,
                      RDiv(RMul(Q_loss, I(dt)), thermal_mass[component_name]))
    IN  [Q_loss |-> Q_loss, T_updated |-> T_updated]

(* Variant: the loss added to the component instead of taken from it.      *)
calculate_insulation_loss_gain(component_name, T_current) ==
    LET U == design.U_values[key_outside(component_name)]
        A == design.heat_exchange_areas[key_outside(component_name)]
        Q_loss == RMul(RMul(U, A), RSub(T_current, I(design.ambient_temp)))
        T_updated ==
            IF component_name = "pipe"
            THEN RAdd(T_current, RDiv(Q_loss, RMul(m_dot_oil, cp.oil)))
            ELSE RAdd(T_current,
                      RDiv(RMul(Q_loss, I(dt)), thermal_mass[component_name]))
    IN  [Q_loss |-> Q_loss, T_updated |-> T_updated]

(* calculate_insulation_loss: returns (Q_loss, T_updated).                 *)
calculate_insulation_loss(component_name, T_current) ==
    LET U == design.U_values[key_outside(component_name)]
        A == design.heat_exchange_areas[key_outside(component_name)]
        Q_loss == RMul(RMul(U, A), RSub(T_current, I(design.ambient_temp)))
        T_updated ==
            IF component_name = "pipe"
            THEN RSub(T_current, RDiv(Q_loss, RMul(m_dot_oil, cp.oil)))
            ELSE RSub(T_current,
                      RDiv(RMul(Q_loss, I(dt)), thermal_mass[component_name]))
    IN  [Q_loss |-> Q_loss, T_updated |-> T_updated]

(* Variant: the approach temperature left out of the driving force.        *)
delta_T_no_approach(T_hot_in, T_cold_in) ==
    RMax(RSub(T_hot_in, T_cold_in), Zero)

(* Variant: the driving force taken from the size of the temperature gap,  *)
(* whichever side is warmer.                                               *)
delta_T_abs(T_hot_in, T_cold_in) ==
    RMax(RSub(IF RLt(T_hot_in, T_cold_in) THEN RSub(T_cold_in, T_hot_in)
              ELSE RSub(T_hot_in, T_cold_in), approach_temp), Zero)

(* delta_T = max(T_hot_in - T_cold_in - approach_temp, 0)                  *)
delta_T_of(T_hot_in, T_cold_in) ==
    RMax(RSub(RSub(T_hot_in, T_cold_in), approach_temp), Zero)

(* Variant: the cold-flow candidate is never compared.                     *)
limiting_Q_no_cold(Q_area, Q_flow_hot, Q_flow_cold, max_duty) ==
    LET s0 == [Q |-> Q_area, reason |-> "area"]
        s1 == IF RLt(Q_flow_hot, s0.Q)
              THEN [Q |-> Q_flow_hot, reason |-> "hot flow"] ELSE s0
        s3 == IF max_duty # None /\ RLt(I(max_duty[1]), s1.Q)
              THEN [Q |-> I(max_duty[1]), reason |-> "device"] ELSE s1
    IN  s3

(* Variant: the hot-flow candidate also wins a tie with the area duty.      *)
limiting_Q_hot_tie(Q_area, Q_flow_hot, Q_flow_cold, max_duty) ==
    LET s0 == [Q |-> Q_area, reason |-> "area"]
        s1 == IF RLe(Q_flow_hot, s0.Q)
              THEN [Q |-> Q_flow_hot, reason |-> "hot flow"] ELSE s0
        s2 == IF RLt(Q_flow_cold, s1.Q)
              THEN [Q |-> Q_flow_cold, reason |-> "cold flow"] ELSE s1
        s3 == IF max_duty # None /\ RLt(I(max_duty[1]), s2.Q)
              THEN [Q |-> I(max_duty[1]), reason |-> "device"] ELSE s2
    IN  s3

(* Variant: every comparison is non-strict, so a tie goes to the later     *)
(* candidate.                                                              *)
limiting_Q_later_on_tie(Q_area, Q_flow_hot, Q_flow_cold, max_duty) ==
    LET s0 == [Q |-> Q_area, reason |-> "area"]
        s1 == IF RLe(Q_flow_hot, s0.Q)
              THEN [Q |-> Q_flow_hot, reason |-> "hot flow"] ELSE s0
        s2 == IF RLe(Q_flow_cold, s1.Q)
              THEN [Q |-> Q_flow_cold, reason |-> "cold flow"] ELSE s1
        s3 == IF max_duty # None /\ RLe(I(max_duty[1]), s2.Q)
              THEN [Q |-> I(max_duty[1]), reason |-> "device"] ELSE s2
    IN  s3

(* Variant: an absent device cap is taken as a cap of zero.                *)
limiting_Q_absent_cap_zero(Q_area, Q_flow_hot, Q_flow_cold, max_duty) ==
    LET s0 == [Q |-> Q_area, reason |-> "area"]
        s1 == IF RLt(Q_flow_hot, s0.Q)
              THEN [Q |-> Q_flow_hot, reason |-> "hot flow"] ELSE s0
        s2 == IF RLt(Q_flow_cold, s1.Q)
              THEN [Q |-> Q_flow_cold, reason |-> "cold flow"] ELSE s1
        cap == IF max_duty = None THEN Zero ELSE I(max_duty[1])
        s3 == IF RLt(cap, s2.Q)
              THEN [Q |-> cap, reason |-> "device"] ELSE s2
    IN  s3

(* Variant: the device cap is ignored.                                     *)
limiting_Q_no_device(Q_area, Q_flow_hot, Q_flow_cold, max_duty) ==
    LET s0 == [Q |-> Q_area, reason |-> "area"]
        s1 == IF RLt(Q_flow_hot, s0.Q)
              THEN [Q |-> Q_flow_hot, reason |-> "hot flow"] ELSE s0
        s2 == IF RLt(Q_flow_cold, s1.Q)
              THEN [Q |-> Q_flow_cold, reason |-> "cold flow"] ELSE s1
    IN  s2

(* "Determine the limiting Q": area is the baseline; each later candidate  *)
(* replaces the running duty only under the strict comparison written in   *)
(* the script.                                                             *)
limiting_Q(Q_area, Q_flow_hot, Q_flow_cold, max_duty) ==
    LET s0 == [Q |-> Q_area, reason |-> "area"]
        s1 == IF RLt(Q_flow_hot, s0.Q)
              THEN [Q |-> Q_flow_hot, reason |-> "hot flow"] ELSE s0
        s2 == IF RLt(Q_flow_cold, s1.Q)
              THEN [Q |-> Q_flow_cold, reason |-> "cold flow"] ELSE s1
        s3 == IF max_duty # None /\ RLt(I(max_duty[1]), s2.Q)
              THEN [Q |-> I(max_duty[1]), reason |-> "device"] ELSE s2
    IN  s3

(* Variant: the hot side is heated by the duty it gives up.                 *)
hot_outlet_plus(T_hot_in, Q, thermal_mass_hot) ==
    RAdd(T_hot_in, RDiv(RMul(Q, I(dt)), thermal_mass_hot))

(* T_hot_out = T_hot_in - (Q * dt / thermal_mass_hot)                      *)
hot_outlet(T_hot_in, Q, thermal_mass_hot) ==
    RSub(T_hot_in, RDiv(RMul(Q, I(dt)), thermal_mass_hot))

(* Variant: the timestep left out of the cold-side update.                 *)
cold_outlet_no_dt(T_cold_in, Q, thermal_mass_cold) ==
    RAdd(T_cold_in, RDiv(Q, thermal_mass_cold))

(* Variant: the cold side is cooled by the duty it receives.               *)
cold_outlet_minus(T_cold_in, Q, thermal_mass_cold) ==
    RSub(T_cold_in, RDiv(RMul(Q, I(dt)), thermal_mass_cold))

(* T_cold_out = T_cold_in + (Q * dt / thermal_mass_cold)                   *)
cold_outlet(T_cold_in, Q, thermal_mass_cold) ==
    RAdd(T_cold_in, RDiv(RMul(Q, I(dt)), thermal_mass_cold))

(* The three duty candidates at driving force dT.                          *)
Q_area_of(Exchanger_name, dT) ==
    RMul(RMul(design.U_values[Exchanger_name],
              design.heat_exchange_areas[Exchanger_name]), dT)

(* Variant: the flow candidate taken per second instead of per timestep.   *)
Q_flow_of_no_dt(thermal_mass_side, dT) ==
    RMul(thermal_mass_side, dT)

(* Q_flow = thermal_mass * delta_T / dt                                    *)
Q_flow_of(thermal_mass_side, dT) ==
    RDiv(RMul(thermal_mass_side, dT), I(dt))

(* calculate_heat_transfer: returns (Q, T_hot_out, T_cold_out, reason).    *)
calculate_heat_transfer(T_hot_in, T_cold_in, thermal_mass_hot, thermal_mass_cold, max_duty, Exchanger_name) ==
    Val1(LAMBDA dT :
           IF RLe(dT, Zero)
           THEN [Q |-> Zero, T_hot_out |-> T_hot_in, T_cold_out |-> T_cold_in,
                 reason |-> "no transfer"]
           ELSE Val1(LAMBDA lim :
                       [Q |-> lim.Q,
                        T_hot_out |-> hot_outlet(T_hot_in, lim.Q, thermal_mass_hot),
                        T_cold_out |-> cold_outlet(T_cold_in, lim.Q, thermal_mass_cold),
                        reason |-> lim.reason],
                     limiting_Q(Q_area_of(Exchanger_name, dT),
                                Q_flow_of(thermal_mass_hot, dT),
                                Q_flow_of(thermal_mass_cold, dT), max_duty)),
         delta_T_of(T_hot_in, T_cold_in))

-----------------------------------------------------------------------------
(* Configurations.                                                         *)
AllNames == ExchangerNames \cup OutsideNames

(* The script gives oil_jacket, jacket_reactor and jacket_outside the same *)
(* area (the jacket shell) and the other interfaces their own.             *)
AreaTable ==
    [n \in AllNames |->
        IF n \in {"oil_jacket", "jacket_reactor", "jacket_outside"}
        THEN I(2) ELSE I(1)]

(* State of the module before the simulation loop starts (section 6).      *)
DriverStart ==
    /\ t = 0
    /\ status = "heating"
    /\ reaction_start_time = None
    /\ T_oil = I(design.ambient_temp)
    /\ T_jacket = I(design.ambient_temp)
    /\ T_reactor = I(design.ambient_temp)
    /\ results = <<>>

(* The configuration globals of sections 1 to 4, by the values that vary.  *)
(* Exchangers have the U value u_exchange, insulation paths u_outside; the *)
(* flowing slugs have thermal mass m_dot * dt * cp.                        *)
ConfigWith(u_exchange, u_outside, step, amb, flow, hold, reactor_max, heater_duty) ==
    /\ design = [heater_max_duty |-> heater_duty, cooler_max_duty |-> 64,
                 cooling_water_temp |-> 0, oil_max_temp |-> 12,
                 reactor_max_temp |-> reactor_max, ambient_temp |-> amb,
                 reaction_time |-> hold * step,
                 U_values |-> [n \in AllNames |->
                                 IF n \in ExchangerNames THEN I(u_exchange)
                                 ELSE I(u_outside)],
                 heat_exchange_areas |-> AreaTable]
    /\ cp = [oil |-> I(8), water |-> I(16)]
    /\ m_dot_oil = I(flow)
    /\ dt = step
    /\ end_time = MaxSteps * step
    /\ K_p = I(2)
    /\ float_format = "grid"
    /\ thermal_mass = [jacket |-> I(8), reactor |-> I(16), pipe |-> I(1),
                       flow |-> I(flow * step * 8),
                       cooling |-> I(flow * step * 16)]

(* The configurations with the heater's duty cap at its usual value.       *)
Config(u_exchange, u_outside, step, amb, flow, hold, reactor_max) ==
    ConfigWith(u_exchange, u_outside, step, amb, flow, hold, reactor_max, 64)

Temps == {Rat(k, 2) : k \in 0 .. 2 * MaxTemp}
DutyCaps == {None} \cup {Some(d) : d \in -1 .. MaxDuty}

-----------------------------------------------------------------------------
(* Specification SpecExchange: calculate_heat_transfer called on arbitrary *)
(* arguments.                                                              *)
InitExchange ==
    /\ \E u \in 1 .. MaxU, step \in 1 .. MaxDt : Config(u, 1, step, 1, 1, 1, 4)
    /\ DriverStart
    /\ pc = "engine"
    /\ call = [fn |-> "none"]
    /\ ret = None

(* Variant: the exchange writes its hot-side outlet to the oil node itself *)
(* instead of leaving the assignment to its caller.                        *)
CallExchange_in_place ==
    /\ pc = "engine"
    /\ \E T_hot_in \in Temps, T_cold_in \in Temps,
          thermal_mass_hot \in 1 .. MaxCap, thermal_mass_cold \in 1 .. MaxCap,
          max_duty \in DutyCaps, Exchanger_name \in ExchangerNames :
            /\ call' = [fn |-> "calculate_heat_transfer",
                        T_hot_in |-> T_hot_in, T_cold_in |-> T_cold_in,
                        thermal_mass_hot |-> thermal_mass_hot,
                        thermal_mass_cold |-> thermal_mass_cold,
                        max_duty |-> max_duty, Exchanger_name |-> Exchanger_name]
            /\ ret' = calculate_heat_transfer(T_hot_in, T_cold_in,
                                              I(thermal_mass_hot),
                                              I(thermal_mass_cold), max_duty,
                                              Exchanger_name)
    /\ T_oil' = ret'.T_hot_out
    /\ pc' = "returned"
    /\ UNCHANGED <<config, t, status, reaction_start_time, T_jacket, T_reactor, results>>

CallExchange ==
    /\ pc = "engine"
    /\ \E T_hot_in \in Temps, T_cold_in \in Temps,
          thermal_mass_hot \in 1 .. MaxCap, thermal_mass_cold \in 1 .. MaxCap,
          max_duty \in DutyCaps, Exchanger_name \in ExchangerNames :
            /\ call' = [fn |-> "calculate_heat_transfer",
                        T_hot_in |-> T_hot_in, T_cold_in |-> T_cold_in,
                        thermal_mass_hot |-> thermal_mass_hot,
                        thermal_mass_cold |-> thermal_mass_cold,
                        max_duty |-> max_duty, Exchanger_name |-> Exchanger_name]
            /\ ret' = calculate_heat_transfer(T_hot_in, T_cold_in,
                                              I(thermal_mass_hot),
                                              I(thermal_mass_cold), max_duty,
                                              Exchanger_name)
    /\ pc' = "returned"
    /\ UNCHANGED <<config, driver>>

NextExchange == CallExchange
SpecExchange == InitExchange /\ [][NextExchange]_vars

(* Specification SpecInsulate: calculate_insulation_loss called on         *)
(* arbitrary arguments.                                                    *)
InitInsulate ==
    /\ \E u \in 1 .. MaxU, step \in 1 .. MaxDt, amb \in 1 .. MaxAmbient,
          flow \in 1 .. MaxFlow : Config(1, u, step, amb, flow, 1, 4)
    /\ DriverStart
    /\ pc = "engine"
    /\ call = [fn |-> "none"]
    /\ ret = None

CallInsulate ==
    /\ pc = "engine"
    /\ \E component_name \in ComponentNames, T_current \in Temps :
            /\ call' = [fn |-> "calculate_insulation_loss",
                        component_name |-> component_name,
                        T_current |-> T_current]
            /\ ret' = calculate_insulation_loss(component_name, T_current)
    /\ pc' = "returned"
    /\ UNCHANGED <<config, driver>>

NextInsulate == CallInsulate
SpecInsulate == InitInsulate /\ [][NextInsulate]_vars

(* Specification SpecEngine: either engine function called once, on        *)
(* arbitrary arguments, from the state before the loop.                    *)
NextEngine == CallExchange \/ CallInsulate
SpecEngine == InitExchange /\ [][NextEngine]_vars

-----------------------------------------------------------------------------
(* 6. Simulation.                                                          *)

(* Variant: the state is read off the reactor temperature again while      *)
(* cooling, so a reactor below reactor_max_temp goes back to heating.      *)
update_status_revert(st, start, T_r, time) ==
    LET a == IF st = "heating" /\ RLe(I(design.reactor_max_temp), T_r)
             THEN [status |-> "reaction", reaction_start_time |-> Some(time)]
             ELSE [status |-> st, reaction_start_time |-> start]
        b == IF a.status = "reaction"
                /\ time - a.reaction_start_time[1] >= design.reaction_time
             THEN [a EXCEPT !.status = "cooling"]
             ELSE a
    IN  IF st = "cooling" /\ RLt(T_r, I(design.reactor_max_temp))
        THEN [b EXCEPT !.status = "heating"]
        ELSE b

(* Variant: the hold is tested against the end of the timestep, so the    *)
(* cooling transition fires one timestep early.                            *)
update_status_early(st, start, T_r, time) ==
    LET a == IF st = "heating" /\ RLe(I(design.reactor_max_temp), T_r)
             THEN [status |-> "reaction", reaction_start_time |-> Some(time)]
             ELSE [status |-> st, reaction_start_time |-> start]
        b == IF a.status = "reaction"
                /\ (time + dt) - a.reaction_start_time[1] >= design.reaction_time
             THEN [a EXCEPT !.status = "cooling"]
             ELSE a
    IN  b

(* Variant: reaction_start_time is stamped again in every reaction         *)
(* timestep.                                                               *)
update_status_restamp(st, start, T_r, time) ==
    LET a == IF st # "cooling" /\ RLe(I(design.reactor_max_temp), T_r)
             THEN [status |-> "reaction", reaction_start_time |-> Some(time)]
             ELSE [status |-> st, reaction_start_time |-> start]
        b == IF a.status = "reaction"
                /\ time - a.reaction_start_time[1] >= design.reaction_time
                /\ st = "reaction"
             THEN [a EXCEPT !.status = "cooling"]
             ELSE a
    IN  b

(* Variant: the transition to reaction does not stamp reaction_start_time, *)
(* and the hold is tested only once a start time exists.                   *)
update_status_unstamped(st, start, T_r, time) ==
    LET a == IF st = "heating" /\ RLe(I(design.reactor_max_temp), T_r)
             THEN [status |-> "reaction", reaction_start_time |-> start]
             ELSE [status |-> st, reaction_start_time |-> start]
        b == IF a.status = "reaction" /\ a.reaction_start_time # None
                /\ time - a.reaction_start_time[1] >= design.reaction_time
             THEN [a EXCEPT !.status = "cooling"]
             ELSE a
    IN  b

(* Step 1: update status based on reactor temperature and reaction time.   *)
(* The two ifs run one after the other, the second on the first's result.  *)
update_status(st, start, T_r, time) ==
    LET a == IF st = "heating" /\ RLe(I(design.reactor_max_temp), T_r)
             THEN [status |-> "reaction", reaction_start_time |-> Some(time)]
             ELSE [status |-> st, reaction_start_time |-> start]
        b == IF a.status = "reaction"
                /\ time - a.reaction_start_time[1] >= design.reaction_time
             THEN [a EXCEPT !.status = "cooling"]
             ELSE a
    IN  b

(* Variant: the proportional target taken without the cap at oil_max_temp. *)
T_heater_exit_uncapped(T_o, T_r) ==
    RAdd(T_o, RMul(K_p, RSub(I(design.reactor_max_temp + 5), T_r)))

(* Variant: the controller's set point fifteen degrees above the reactor   *)
(* maximum instead of five.                                                *)
T_heater_exit_high_setpoint(T_o, T_r) ==
    LET T_error == RSub(I(design.reactor_max_temp + 15), T_r)
    IN  RMin(I(design.oil_max_temp), RAdd(T_o, RMul(K_p, T_error)))

(* Variant: no proportional throttling, the heater always aims at          *)
(* oil_max_temp.                                                           *)
T_heater_exit_unthrottled(T_o, T_r) == I(design.oil_max_temp)

(* The heater exit target of the proportional controller.                  *)
T_heater_exit(T_o, T_r) ==
    LET T_error == RSub(I(design.reactor_max_temp + 5), T_r)
    IN  RMin(I(design.oil_max_temp), RAdd(T_o, RMul(K_p, T_error)))

(* Variant: the cooling branch leaves the heater's duty and reason bound   *)
(* to its own exchanger call.                                              *)
heater_or_cooler_both(st, T_o, T_r) ==
    IF st \in {"heating", "reaction"}
    THEN LET r == calculate_heat_transfer(T_heater_exit(T_o, T_r), T_o,
                      thermal_mass.flow, thermal_mass.flow,
                      Some(design.heater_max_duty), "heater_oil")
         IN  [Q_heater |-> r.Q, Q_cooler |-> Zero, T_oil |-> fl(r.T_cold_out),
              limit_heater |-> r.reason, limit_cooler |-> "no transfer"]
    ELSE LET r == calculate_heat_transfer(T_o, I(design.cooling_water_temp),
                      thermal_mass.flow, thermal_mass.cooling,
                      Some(design.cooler_max_duty), "cooler_oil")
         IN  [Q_heater |-> r.Q, Q_cooler |-> r.Q, T_oil |-> fl(r.T_cold_out),
              limit_heater |-> r.reason, limit_cooler |-> r.reason]

(* Variant: the heater and cooler exchangers called without their device   *)
(* duty caps.                                                              *)
heater_or_cooler_uncapped(st, T_o, T_r) ==
    IF st \in {"heating", "reaction"}
    THEN LET r == calculate_heat_transfer(T_heater_exit(T_o, T_r), T_o,
                      thermal_mass.flow, thermal_mass.flow, None, "heater_oil")
         IN  [Q_heater |-> r.Q, Q_cooler |-> Zero, T_oil |-> fl(r.T_cold_out),
              limit_heater |-> r.reason, limit_cooler |-> "no transfer"]
    ELSE LET r == calculate_heat_transfer(T_o, I(design.cooling_water_temp),
                      thermal_mass.flow, thermal_mass.cooling, None, "cooler_oil")
         IN  [Q_heater |-> Zero, Q_cooler |-> r.Q, T_oil |-> fl(r.T_cold_out),
              limit_heater |-> "no transfer", limit_cooler |-> r.reason]

(* Step 2: heater or cooler.  Both branches unpack the call's result as    *)
(* (Q, _, T_oil, reason): T_oil takes the third value, T_cold_out.         *)
heater_or_cooler(st, T_o, T_r) ==
    IF st \in {"heating", "reaction"}
    THEN Val1(LAMBDA r :
                [Q_heater |-> r.Q, Q_cooler |-> Zero, T_oil |-> fl(r.T_cold_out),
                 limit_heater |-> r.reason, limit_cooler |-> "no transfer"],
              calculate_heat_transfer(T_heater_exit(T_o, T_r), T_o,
                  thermal_mass.flow, thermal_mass.flow,
                  Some(design.heater_max_duty), "heater_oil"))
    ELSE IF st = "cooling"
    THEN Val1(LAMBDA r :
                [Q_heater |-> Zero, Q_cooler |-> r.Q, T_oil |-> fl(r.T_cold_out),
                 limit_heater |-> "no transfer", limit_cooler |-> r.reason],
              calculate_heat_transfer(T_o, I(design.cooling_water_temp),
                  thermal_mass.flow, thermal_mass.cooling,
                  Some(design.cooler_max_duty), "cooler_oil"))
    ELSE [Q_heater |-> Zero, Q_cooler |-> Zero, T_oil |-> T_o,
          limit_heater |-> "no transfer", limit_cooler |-> "no transfer"]

(* Variant: step 2 branches on the status the timestep started with.      *)
status_at_step2_stale(before, after) == before

(* The status step 2 branches on: step 1 has assigned it by then.          *)
status_at_step2(before, after) == after

(* Variant: the range taken right-closed, so t = end_time is visited too.  *)
in_range_closed(time) == time <= end_time

(* range(0, end_time, dt) holds the value time (a multiple of dt).         *)
in_range(time) == time < end_time

(* Variant: the total loss summed before step 8, without the return       *)
(* pipe's loss.                                                            *)
Row_total_before_return(time, s2, T_oil_pipe_out, T_oil_jacket_out, T_oil_return, T_j, T_r, s3, s4, s5, s6, s7, s8) ==
    [time |-> time,
     T_oil_out_heater |-> s2.T_oil,
     T_oil_after_pipe_to_jacket |-> T_oil_pipe_out,
     T_oil_after_jacket |-> T_oil_jacket_out,
     T_oil_after_pipe_to_heater |-> T_oil_return,
     T_jacket |-> T_j,
     T_reactor |-> T_r,
     Q_heater |-> s2.Q_heater,
     Q_cooler |-> s2.Q_cooler,
     Q_oil_jacket |-> s4.Q,
     Q_jacket_reactor |-> s5.Q,
     Q_pipe_to_jacket |-> s3.Q_loss,
     Q_pipe_to_heater |-> s8.Q_loss,
     Q_jacket_loss |-> s6.Q_loss,
     Q_reactor_loss |-> s7.Q_loss,
     limit_heater |-> s2.limit_heater,
     limit_cooler |-> s2.limit_cooler,
     limit_oil_jacket |-> s4.reason,
     limit_jacket_reactor |-> s5.reason,
     Q_total_loss |-> RAdd(RAdd(s6.Q_loss, s7.Q_loss), s3.Q_loss)]

(* Variant: the append to the Q_total_loss column left out.                *)
Row_without_total(time, s2, T_oil_pipe_out, T_oil_jacket_out, T_oil_return, T_j, T_r, s3, s4, s5, s6, s7, s8) ==
    [time |-> time,
     T_oil_out_heater |-> s2.T_oil,
     T_oil_after_pipe_to_jacket |-> T_oil_pipe_out,
     T_oil_after_jacket |-> T_oil_jacket_out,
     T_oil_after_pipe_to_heater |-> T_oil_return,
     T_jacket |-> T_j,
     T_reactor |-> T_r,
     Q_heater |-> s2.Q_heater,
     Q_cooler |-> s2.Q_cooler,
     Q_oil_jacket |-> s4.Q,
     Q_jacket_reactor |-> s5.Q,
     Q_pipe_to_jacket |-> s3.Q_loss,
     Q_pipe_to_heater |-> s8.Q_loss,
     Q_jacket_loss |-> s6.Q_loss,
     Q_reactor_loss |-> s7.Q_loss,
     limit_heater |-> s2.limit_heater,
     limit_cooler |-> s2.limit_cooler,
     limit_oil_jacket |-> s4.reason,
     limit_jacket_reactor |-> s5.reason]

(* Step 9: the row appended to every column of results.                   *)
Row(time, s2, T_oil_pipe_out, T_oil_jacket_out, T_oil_return, T_j, T_r, s3, s4, s5, s6, s7, s8) ==
    [time |-> time,
     T_oil_out_heater |-> s2.T_oil,
     T_oil_after_pipe_to_jacket |-> T_oil_pipe_out,
     T_oil_after_jacket |-> T_oil_jacket_out,
     T_oil_after_pipe_to_heater |-> T_oil_return,
     T_jacket |-> T_j,
     T_reactor |-> T_r,
     Q_heater |-> s2.Q_heater,
     Q_cooler |-> s2.Q_cooler,
     Q_oil_jacket |-> s4.Q,
     Q_jacket_reactor |-> s5.Q,
     Q_pipe_to_jacket |-> s3.Q_loss,
     Q_pipe_to_heater |-> s8.Q_loss,
     Q_jacket_loss |-> s6.Q_loss,
     Q_reactor_loss |-> s7.Q_loss,
     limit_heater |-> s2.limit_heater,
     limit_cooler |-> s2.limit_cooler,
     limit_oil_jacket |-> s4.reason,
     limit_jacket_reactor |-> s5.reason,
     Q_total_loss |-> RAdd(RAdd(RAdd(s8.Q_loss, s6.Q_loss), s7.Q_loss),
                           s3.Q_loss)]

(* Variant: the jacket-to-reactor exchange of step 5 reads the jacket      *)
(* temperature the timestep started with, not the one step 4 produced.     *)
Step_stale_jacket ==
    /\ pc = "loop"
    /\ in_range(t)
    /\ \E s1 \in {update_status(status, reaction_start_time, T_reactor, t)} :
       \E s2 \in {heater_or_cooler(status_at_step2(status, s1.status),
                                   T_oil, T_reactor)} :
       \E s3 \in {calculate_insulation_loss("pipe", s2.T_oil)} :
       \E T_oil_pipe_out \in {fl(s3.T_updated)} :
       \E s4 \in {calculate_heat_transfer(T_oil_pipe_out, T_jacket,
                     thermal_mass.flow, thermal_mass.jacket, None,
                     "oil_jacket")} :
       \E T_oil_jacket_out \in {fl(s4.T_hot_out)}, T_jacket_4 \in {fl(s4.T_cold_out)} :
       \E s5 \in {calculate_heat_transfer(T_jacket, T_reactor,
                     thermal_mass.jacket, thermal_mass.reactor, None,
                     "jacket_reactor")} :
       \E T_jacket_5 \in {fl(s5.T_hot_out)}, T_reactor_5 \in {fl(s5.T_cold_out)} :
       \E s6 \in {calculate_insulation_loss("jacket", T_jacket_5)},
          s7 \in {calculate_insulation_loss("reactor", T_reactor_5)},
          s8 \in {calculate_insulation_loss("pipe", T_oil_jacket_out)} :
       \E T_j \in {fl(s6.T_updated)}, T_r \in {fl(s7.T_updated)},
          T_oil_return \in {fl(s8.T_updated)} :
            /\ status' = s1.status
            /\ reaction_start_time' = s1.reaction_start_time
            /\ T_oil' = T_oil_return
            /\ T_jacket' = T_j
            /\ T_reactor' = T_r
            /\ results' = Append(results,
                  Row(t, s2, T_oil_pipe_out, T_oil_jacket_out, T_oil_return,
                      T_j, T_r, s3, s4, s5, s6, s7, s8))
    /\ t' = t + dt
    /\ UNCHANGED <<config, pc, call, ret>>

(* One pass of the loop body for loop value t: steps 1 to 9.  Each step's  *)
(* result is bound once (\E over a one-element set) and handed on, as the  *)
(* script's sequential assignments do.                                     *)
Step ==
    /\ pc = "loop"
    /\ in_range(t)
    /\ \E s1 \in {update_status(status, reaction_start_time, T_reactor, t)} :
       \E s2 \in {heater_or_cooler(status_at_step2(status, s1.status),
                                   T_oil, T_reactor)} :
       \E s3 \in {calculate_insulation_loss("pipe", s2.T_oil)} :
       \E T_oil_pipe_out \in {fl(s3.T_updated)} :
       \E s4 \in {calculate_heat_transfer(T_oil_pipe_out, T_jacket,
                     thermal_mass.flow, thermal_mass.jacket, None,
                     "oil_jacket")} :
       \E T_oil_jacket_out \in {fl(s4.T_hot_out)}, T_jacket_4 \in {fl(s4.T_cold_out)} :
       \E s5 \in {calculate_heat_transfer(T_jacket_4, T_reactor,
                     thermal_mass.jacket, thermal_mass.reactor, None,
                     "jacket_reactor")} :
       \E T_jacket_5 \in {fl(s5.T_hot_out)}, T_reactor_5 \in {fl(s5.T_cold_out)} :
       \E s6 \in {calculate_insulation_loss("jacket", T_jacket_5)},
          s7 \in {calculate_insulation_loss("reactor", T_reactor_5)},
          s8 \in {calculate_insulation_loss("pipe", T_oil_jacket_out)} :
       \E T_j \in {fl(s6.T_updated)}, T_r \in {fl(s7.T_updated)},
          T_oil_return \in {fl(s8.T_updated)} :
            /\ status' = s1.status
            /\ reaction_start_time' = s1.reaction_start_time
            /\ T_oil' = T_oil_return
            /\ T_jacket' = T_j
            /\ T_reactor' = T_r
            /\ results' = Append(results,
                  Row(t, s2, T_oil_pipe_out, T_oil_jacket_out, T_oil_return,
                      T_j, T_r, s3, s4, s5, s6, s7, s8))
    /\ t' = t + dt
    /\ UNCHANGED <<config, pc, call, ret>>

(* range(0, end_time, dt) is exhausted: the loop ends.                     *)
LoopExit ==
    /\ pc = "loop"
    /\ ~in_range(t)
    /\ pc' = "done"
    /\ UNCHANGED <<config, driver, call, ret>>

Init ==
    /\ \E u \in 1 .. MaxU, step \in 1 .. MaxDt, amb \in 1 .. MaxAmbient,
          flow \in 1 .. MaxFlow, hold \in 0 .. MaxHold,
          reactor_max \in 3 .. MaxReactorMax :
            Config(4 * u, 1, step, amb, flow, hold, reactor_max)
    /\ DriverStart
    /\ pc = "loop"
    /\ call = [fn |-> "none"]
    /\ ret = None

Next == Step \/ LoopExit
Spec == Init /\ [][Next]_vars

(* The script reads its configuration globals as written, with no check    *)
(* between their definition and the loop: the same driver, started from    *)
(* configurations that also hold a non-positive U value, a negative flow   *)
(* capacitance, a negative reaction hold or a negative heater duty cap.    *)
InitUnvalidated ==
    /\ \E u \in {-1, 0, 1}, flow \in {-1, 1}, hold \in {-1, 1},
          heater_duty \in {-64, 64} :
            ConfigWith(4 * u, 1, 1, 1, flow, hold, 4, heater_duty)
    /\ DriverStart
    /\ pc = "loop"
    /\ call = [fn |-> "none"]
    /\ ret = None

SpecUnvalidated == InitUnvalidated /\ [][Next]_vars

-----------------------------------------------------------------------------
(* The configuration written in the script (sections 1 to 4), and the run  *)
(* of the script from it, in binary floating point.                        *)

(* math.pi                                                                 *)
Pi == Val2(FDiv, FInt(314159265), FInt(100000000))

rho == [oil |-> I(800), steel |-> I(8000), water |-> I(1000)]
cp_script == [oil |-> I(2200), water |-> I(4186), minerals |-> I(900), steel |-> I(500)]

Mineral_weight == 350
Water_weight == 150
oil_flow_m3_per_h == 10
water_flow_m3_per_h == 30

(* Reactor and pipe geometry.                                              *)
diameter == Rat(3, 2)
radius == RDiv(diameter, I(2))
height == I(2)
thickness == Rat(3, 100)
pipe_length == I(10)
pipe_diameter == Rat(254, 10000)
pipe_area == RMul(RMul(Pi, pipe_diameter), pipe_length)
pipe_volume ==
    RMul(RMul(Pi, RMul(RDiv(pipe_diameter, I(2)), RDiv(pipe_diameter, I(2)))),
         pipe_length)

heat_exchange_areas_script ==
    [heater_oil |-> I(5),
     oil_jacket |-> RMul(RMul(Pi, diameter), height),
     jacket_reactor |-> RMul(RMul(Pi, diameter), height),
     cooler_oil |-> I(3),
     pipe_outside |-> pipe_area,
     jacket_outside |-> RMul(RMul(Pi, diameter), height),
     reactor_outside |-> RMul(RMul(I(2), Pi), RMul(radius, radius))]

U_values_script ==
    [heater_oil |-> I(200), oil_jacket |-> I(150), jacket_reactor |-> I(100),
     cooler_oil |-> I(400), pipe_outside |-> I(2), jacket_outside |-> I(2),
     reactor_outside |-> I(3)]

(* Flow rates, masses and thermal masses for the timestep step.            *)
m_dot_oil_script == RDiv(RMul(rho.oil, I(oil_flow_m3_per_h)), I(3600))
m_dot_water == RDiv(RMul(rho.water, I(water_flow_m3_per_h)), I(3600))

shell_volume ==
    RMul(RMul(Pi, RSub(RMul(radius, radius),
                       RMul(RSub(radius, thickness), RSub(radius, thickness)))),
         height)
end_volume == RMul(RMul(RMul(I(2), Pi), RMul(radius, radius)), thickness)

mass_jacket == RMul(shell_volume, rho.steel)
mass_reactor == RMul(end_volume, rho.steel)
mass_oil == RMul(RDiv(pipe_volume, I(1000)), rho.oil)

thermal_mass_script(step) ==
    [jacket |-> RMul(mass_jacket, cp_script.steel),
     reactor |-> RAdd(RMul(mass_reactor, cp_script.steel),
                      RAdd(RMul(I(Mineral_weight), cp_script.minerals),
                           RMul(I(Water_weight), cp_script.water))),
     pipe |-> RMul(mass_oil, cp_script.oil),
     flow |-> RMul(RMul(m_dot_oil_script, I(step)), cp_script.oil),
     cooling |-> RMul(RMul(m_dot_water, I(step)), cp_script.water)]

InitDefault ==
    /\ design = [heater_max_duty |-> 96000, cooler_max_duty |-> 60000,
                 cooling_water_temp |-> 10, oil_max_temp |-> 200,
                 reactor_max_temp |-> 175, ambient_temp |-> 25,
                 reaction_time |-> 1 * 3600,
                 U_values |-> U_values_script,
                 heat_exchange_areas |-> heat_exchange_areas_script]
    /\ cp = cp_script
    /\ m_dot_oil = m_dot_oil_script
    /\ dt = 60
    /\ end_time = 6 * 3600
    /\ K_p = FInt(92)
    /\ float_format = "binary"
    /\ thermal_mass = thermal_mass_script(60)
    /\ DriverStart
    /\ pc = "loop"
    /\ call = [fn |-> "none"]
    /\ ret = None

SpecDefault == InitDefault /\ [][Next]_vars

-----------------------------------------------------------------------------
(* Properties of the simulation run (Spec).  After a pass of the loop,     *)
(* status is the state that pass ran in and the last row is its record.    *)
Rank(st) ==
    CASE st = "heating" -> 0
      [] st = "reaction" -> 1
      [] st = "cooling" -> 2

Logged == Len(results) > 0
LastRow == results[Len(results)]

(* The oil temperature with which the last pass entered step 2.            *)
OilIntoStep2 ==
    IF Len(results) = 1 THEN I(design.ambient_temp)
    ELSE results[Len(results) - 1].T_oil_after_pipe_to_heater

(* The reactor temperature with which the last pass started.               *)
ReactorAtStart ==
    IF Len(results) = 1 THEN I(design.ambient_temp)
    ELSE results[Len(results) - 1].T_reactor

(* C1: over the whole run the process state only moves forward in the      *)
(* order heating < reaction < cooling, and once cooling is entered every   *)
(* later timestep is in cooling, whatever the reactor temperature does.    *)
C1_StatusMonotonic ==
    [][/\ Rank(status) <= Rank(status')
       /\ status = "cooling" => status' = "cooling"]_vars

(* C1 witness: a pass that started with the reactor back below             *)
(* reactor_max_temp, after an earlier pass in cooling, and ran in cooling. *)
C1_Witness ==
    /\ Len(results) >= 3
    /\ status = "cooling"
    /\ RLt(ReactorAtStart, I(design.reactor_max_temp))
    /\ results[Len(results) - 1].limit_heater = "no transfer"
    /\ results[Len(results) - 1].Q_heater = Zero
    /\ RLt(Zero, results[Len(results) - 2].Q_cooler)

(* C11: the driver runs one timestep for each t = 0, dt, 2*dt, ... below   *)
(* end_time and then stops: every pass moves t up by dt > 0 and appends    *)
(* one record, the only step left at t >= end_time is the exit, which      *)
(* appends nothing; the run ends with exactly end_time/dt records, the     *)
(* k-th carrying elapsed time k*dt (counted from 0), none for t = end_time.*)
RecordsTimed ==
    /\ \A k \in 1 .. Len(results) :
          results[k].time = (k - 1) * dt /\ results[k].time < end_time
    /\ pc = "done" => Len(results) * dt = end_time

C11_LoopRunsToEnd ==
    [][/\ RecordsTimed'
       /\ dt > 0
       /\ \/ t < end_time /\ t' = t + dt /\ Len(results') = Len(results) + 1
          \/ t >= end_time /\ pc' = "done" /\ results' = results]_vars

(* C11 witness: the finished run, with its last record at end_time - dt.   *)
C11_Witness ==
    /\ pc = "done"
    /\ Len(results) = MaxSteps
    /\ LastRow.time = end_time - dt
    /\ dt > 1

(* C12: the heater exit target min(oil_max_temp, T_oil + K_p * ((reactor_  *)
(* max_temp + 5) - T_reactor)) never exceeds oil_max_temp, and the oil     *)
(* temperature recorded after the heater/cooler stage, T_oil_out_heater,   *)
(* never exceeds oil_max_temp in any record of the run.                    *)
C12_OilBelowMax ==
    /\ (Logged /\ status \in {"heating", "reaction"})
          => RLe(T_heater_exit(OilIntoStep2, ReactorAtStart),
                 I(design.oil_max_temp))
    /\ \A k \in 1 .. Len(results) :
          RLe(results[k].T_oil_out_heater, I(design.oil_max_temp))

(* C12 witness: a heater pass whose proportional target lies above         *)
(* oil_max_temp, so the cap acts, and the oil leaves the heater at the cap *)
(* less the approach temperature.                                          *)
C12_Witness ==
    /\ Logged
    /\ status = "heating"
    /\ RLt(I(design.oil_max_temp),
           T_heater_exit_uncapped(OilIntoStep2, ReactorAtStart))
    /\ LastRow.T_oil_out_heater = RSub(I(design.oil_max_temp), approach_temp)

(* C13: the inactive device reports zero duty and the reason "no          *)
(* transfer": a record of a heating or reaction timestep has Q_cooler = 0  *)
(* and limit_cooler = "no transfer", a record of a cooling timestep has    *)
(* Q_heater = 0 and limit_heater = "no transfer"; no record has both       *)
(* duties positive.                                                        *)
C13_InactiveDeviceIdle ==
    /\ (Logged /\ status \in {"heating", "reaction"})
          => LastRow.Q_cooler = Zero /\ LastRow.limit_cooler = "no transfer"
    /\ (Logged /\ status = "cooling")
          => LastRow.Q_heater = Zero /\ LastRow.limit_heater = "no transfer"
    /\ \A k \in 1 .. Len(results) :
          ~(RLt(Zero, results[k].Q_heater) /\ RLt(Zero, results[k].Q_cooler))

(* C13 witness: a run whose heater has delivered heat and whose cooler is  *)
(* now removing heat.                                                      *)
C13_Witness ==
    /\ Logged
    /\ status = "cooling"
    /\ RLt(Zero, LastRow.Q_cooler)
    /\ \E k \in 1 .. Len(results) : RLt(Zero, results[k].Q_heater)

(* A configuration the claim calls invalid: a non-positive capacitance,    *)
(* area, U value or timestep, a negative duty cap or a negative hold.      *)
ConfigInvalid ==
    \/ \E k \in DOMAIN thermal_mass : RLe(thermal_mass[k], Zero)
    \/ \E n \in AllNames : RLe(design.heat_exchange_areas[n], Zero)
    \/ \E n \in AllNames : RLe(design.U_values[n], Zero)
    \/ dt <= 0
    \/ design.heater_max_duty < 0
    \/ design.cooler_max_duty < 0
    \/ design.reaction_time < 0

(* C14: a configuration with a non-positive capacitance, area, U value or  *)
(* timestep, a negative duty cap or a negative reaction hold is rejected   *)
(* before any timestep runs: no record is produced for it.                 *)
C14_InvalidConfigRejected == ConfigInvalid => Len(results) = 0

(* C17: the reaction hold lasts at least reaction_time: a timestep t with  *)
(* reaction_start_time <= t < reaction_start_time + reaction_time runs in  *)
(* reaction, the first timestep with t - reaction_start_time >=            *)
(* reaction_time and every later one runs in cooling; with reaction_time   *)
(* > 0 the timestep that enters reaction does not also enter cooling.      *)
C17_HoldLastsReactionTime ==
    (Logged /\ reaction_start_time # None) =>
        /\ LastRow.time >= reaction_start_time[1]
        /\ (LastRow.time - reaction_start_time[1] < design.reaction_time)
              => status = "reaction"
        /\ (LastRow.time - reaction_start_time[1] >= design.reaction_time)
              => status = "cooling"
        /\ (design.reaction_time > 0 /\ LastRow.time = reaction_start_time[1])
              => status = "reaction"

(* C17 witness: the first cooling timestep, exactly reaction_time after    *)
(* the reaction began, with a hold that is not empty.                      *)
C17_Witness ==
    /\ Logged
    /\ status = "cooling"
    /\ reaction_start_time # None
    /\ design.reaction_time > dt
    /\ LastRow.time - reaction_start_time[1] = design.reaction_time

(* C18: the transition heating -> reaction fires at the first timestep     *)
(* whose start-of-step reactor temperature is at least reactor_max_temp    *)
(* and at none before it; reaction_start_time is assigned at that          *)
(* timestep, to that timestep's t, and is never assigned again.            *)
C18_ReactionStartsOnce ==
    [][/\ reaction_start_time # None
            => reaction_start_time' = reaction_start_time
       /\ (t' # t /\ status = "heating"
              /\ RLe(I(design.reactor_max_temp), T_reactor))
            => status' # "heating" /\ reaction_start_time' = Some(t)
       /\ (t' # t /\ status = "heating"
              /\ RLt(T_reactor, I(design.reactor_max_temp)))
            => status' = "heating" /\ reaction_start_time' = None
       /\ (status' = "heating") <=> (reaction_start_time' = None)]_vars

(* C18 witness: a run that heated for some timesteps, entered reaction     *)
(* with the reactor at or above reactor_max_temp and has since run a       *)
(* later timestep.                                                         *)
C18_Witness ==
    /\ Len(results) > 1
    /\ reaction_start_time # None
    /\ reaction_start_time[1] > dt
    /\ LastRow.time > reaction_start_time[1]
    /\ status = "reaction"
    /\ RLe(I(design.reactor_max_temp),
           results[reaction_start_time[1] \div dt].T_reactor)
    /\ RLt(results[reaction_start_time[1] \div dt - 1].T_reactor,
           I(design.reactor_max_temp))

(* The exchanger calls of step 2 on the values a timestep starts with.     *)
HeaterCall ==
    calculate_heat_transfer(T_heater_exit(T_oil, T_reactor), T_oil,
        thermal_mass.flow, thermal_mass.flow,
        Some(design.heater_max_duty), "heater_oil")

CoolerCall ==
    calculate_heat_transfer(T_oil, I(design.cooling_water_temp),
        thermal_mass.flow, thermal_mass.cooling,
        Some(design.cooler_max_duty), "cooler_oil")

(* C19: the transitions are applied at the start of the timestep, before   *)
(* any heat transfer, and the branch of step 2 follows the state after     *)
(* them: a timestep that ends up in cooling, the one where reaction ->     *)
(* cooling fires included, records the cooler's call and Q_heater = 0; a   *)
(* timestep that ends up in heating or reaction, the one where heating ->  *)
(* reaction fires included, records the heater's call.                     *)
C19_BranchFollowsTransition ==
    [][t' # t =>
        /\ status' = "cooling" =>
              /\ results'[Len(results')].Q_heater = Zero
              /\ results'[Len(results')].limit_heater = "no transfer"
              /\ results'[Len(results')].Q_cooler = CoolerCall.Q
              /\ results'[Len(results')].limit_cooler = CoolerCall.reason
        /\ status' \in {"heating", "reaction"} =>
              /\ results'[Len(results')].Q_cooler = Zero
              /\ results'[Len(results')].limit_cooler = "no transfer"
              /\ results'[Len(results')].Q_heater = HeaterCall.Q
              /\ results'[Len(results')].limit_heater = HeaterCall.reason]_vars

(* C19 witness: the timestep in which reaction -> cooling fired, after a   *)
(* hold of at least one timestep, with the cooler removing heat and the    *)
(* heater idle.                                                            *)
C19_Witness ==
    /\ Logged
    /\ status = "cooling"
    /\ design.reaction_time > 0
    /\ LastRow.time = reaction_start_time[1] + design.reaction_time
    /\ RLt(Zero, LastRow.Q_cooler)
    /\ LastRow.limit_cooler # "no transfer"
    /\ LastRow.Q_heater = Zero
    /\ RLt(Zero, results[Len(results) - 1].Q_heater)

(* C20: within a timestep the oil temperature is one value threaded       *)
(* through heater or cooler, pipe loss, oil-to-jacket exchange and return  *)
(* pipe loss, each stage taking the previous stage's output; the           *)
(* jacket-to-reactor exchange takes the jacket temperature the same        *)
(* timestep's oil-to-jacket exchange produced; the oil, jacket and reactor *)
(* temperatures entering the next timestep are the recorded                *)
(* T_oil_after_pipe_to_heater, T_jacket and T_reactor.                     *)
C20_OilThreaded ==
    [][t' # t =>
        /\ status' = "cooling"
              => results'[Len(results')].Q_cooler = CoolerCall.Q
        /\ status' # "cooling"
              => results'[Len(results')].Q_heater = HeaterCall.Q
        /\ results'[Len(results')].T_oil_after_pipe_to_jacket
              = fl(calculate_insulation_loss("pipe",
                      results'[Len(results')].T_oil_out_heater).T_updated)
        /\ \E oj \in {calculate_heat_transfer(
                          results'[Len(results')].T_oil_after_pipe_to_jacket,
                          T_jacket, thermal_mass.flow, thermal_mass.jacket,
                          None, "oil_jacket")} :
           \E jr \in {calculate_heat_transfer(fl(oj.T_cold_out), T_reactor,
                          thermal_mass.jacket, thermal_mass.reactor,
                          None, "jacket_reactor")} :
              /\ results'[Len(results')].Q_oil_jacket = oj.Q
              /\ results'[Len(results')].T_oil_after_jacket = fl(oj.T_hot_out)
              /\ results'[Len(results')].Q_jacket_reactor = jr.Q
              /\ results'[Len(results')].T_jacket
                    = fl(calculate_insulation_loss("jacket",
                            fl(jr.T_hot_out)).T_updated)
              /\ results'[Len(results')].T_reactor
                    = fl(calculate_insulation_loss("reactor",
                            fl(jr.T_cold_out)).T_updated)
        /\ results'[Len(results')].T_oil_after_pipe_to_heater
              = fl(calculate_insulation_loss("pipe",
                      results'[Len(results')].T_oil_after_jacket).T_updated)
        /\ T_oil' = results'[Len(results')].T_oil_after_pipe_to_heater
        /\ T_jacket' = results'[Len(results')].T_jacket
        /\ T_reactor' = results'[Len(results')].T_reactor]_vars

(* C20 witness: a second or later timestep in which every stage acts: the  *)
(* oil was heated, lost heat in both pipe runs and heated the jacket, and  *)
(* the jacket, warmer than at the start of the timestep, heated the        *)
(* reactor.                                                                *)
C20_Witness ==
    /\ Len(results) > 1
    /\ RLt(Zero, LastRow.Q_heater)
    /\ RLt(Zero, LastRow.Q_pipe_to_jacket)
    /\ RLt(Zero, LastRow.Q_oil_jacket)
    /\ RLt(Zero, LastRow.Q_jacket_reactor)
    /\ RLt(Zero, LastRow.Q_pipe_to_heater)
    /\ RLt(LastRow.T_oil_after_pipe_to_jacket, LastRow.T_oil_out_heater)
    /\ RLt(LastRow.T_oil_after_jacket, LastRow.T_oil_after_pipe_to_jacket)
    /\ RLt(LastRow.T_oil_after_pipe_to_heater, LastRow.T_oil_after_jacket)
    /\ T_oil = LastRow.T_oil_after_pipe_to_heater

(* C15: with the script's default configuration the run enters the        *)
(* reaction state, and in every timestep executed in reaction the recorded *)
(* reactor temperature stays within about 175 to 180 C: not below          *)
(* reactor_max_temp and not more than one degree above the controller's    *)
(* set point reactor_max_temp + 5.                                         *)
C15_ReactionHolds ==
    /\ (Logged /\ status = "reaction")
          => /\ RLe(I(design.reactor_max_temp), LastRow.T_reactor)
             /\ RLe(LastRow.T_reactor, I(design.reactor_max_temp + 5 + 1))
    /\ pc = "done" => reaction_start_time # None

(* C15 witness: half an hour into the hold, the reactor just above the set *)
(* point.                                                                  *)
C15_Witness ==
    /\ Logged
    /\ status = "reaction"
    /\ LastRow.time - reaction_start_time[1] >= 1800
    /\ RLt(I(design.reactor_max_temp + 5), LastRow.T_reactor)

(* C16: with the script's default configuration, once cooling has begun    *)
(* the recorded reactor temperature declines: of two consecutive records   *)
(* both produced in cooling, the later T_reactor is not above the earlier. *)
C16_CoolingDeclines ==
    [][(t' # t /\ Logged /\ status = "cooling" /\ status' = "cooling")
          => RLe(results'[Len(results')].T_reactor, LastRow.T_reactor)]_vars

(* C16 witness: two consecutive cooling records, the later one cooler.     *)
C16_Witness ==
    /\ Len(results) > 1
    /\ status = "cooling"
    /\ LastRow.time - reaction_start_time[1] >= design.reaction_time + dt
    /\ RLt(LastRow.T_reactor, results[Len(results) - 1].T_reactor)
    /\ RLt(Zero, results[Len(results) - 1].Q_cooler)

(* C21: in every record Q_total_loss is the sum of that timestep's four    *)
(* insulation losses, Q_pipe_to_jacket + Q_jacket_loss + Q_reactor_loss +  *)
(* Q_pipe_to_heater.                                                       *)
C21_TotalLossIsSum ==
    \A k \in 1 .. Len(results) :
        results[k].Q_total_loss
          = RAdd(RAdd(RAdd(results[k].Q_pipe_to_jacket, results[k].Q_jacket_loss),
                      results[k].Q_reactor_loss),
                 results[k].Q_pipe_to_heater)

(* C21 witness: a record in which all four paths lose heat, the two pipe   *)
(* runs by different amounts.                                              *)
C21_Witness ==
    /\ Logged
    /\ RLt(Zero, LastRow.Q_pipe_to_jacket)
    /\ RLt(Zero, LastRow.Q_jacket_loss)
    /\ RLt(Zero, LastRow.Q_reactor_loss)
    /\ RLt(Zero, LastRow.Q_pipe_to_heater)
    /\ RLt(LastRow.Q_pipe_to_heater, LastRow.Q_pipe_to_jacket)
    /\ RLt(RAdd(LastRow.Q_pipe_to_jacket, LastRow.Q_jacket_loss),
           LastRow.Q_total_loss)

(* C22: in every record 0 <= Q_heater <= heater_max_duty and               *)
(* 0 <= Q_cooler <= cooler_max_duty.                                       *)
C22_DutiesWithinCaps ==
    \A k \in 1 .. Len(results) :
        /\ RLe(Zero, results[k].Q_heater)
        /\ RLe(results[k].Q_heater, I(design.heater_max_duty))
        /\ RLe(Zero, results[k].Q_cooler)
        /\ RLe(results[k].Q_cooler, I(design.cooler_max_duty))

(* C22 witness: a run whose heater has been held at its device cap (the    *)
(* area and flow candidates above it) and whose cooler is removing heat.   *)
C22_Witness ==
    /\ Logged
    /\ RLt(Zero, LastRow.Q_cooler)
    /\ \E k \in 1 .. Len(results) :
          /\ results[k].limit_heater = "device"
          /\ results[k].Q_heater = I(design.heater_max_duty)

(* The values a limit-reason column can hold.                              *)
LimitReasons == {"area", "hot flow", "cold flow", "device", "no transfer"}

(* C23: every limit reason in every record is one of "area", "hot flow",   *)
(* "cold flow", "device", "no transfer", and the two exchangers called     *)
(* without a device cap, oil_jacket and jacket_reactor, never record       *)
(* "device".                                                               *)
C23_ReasonsEnumerated ==
    \A k \in 1 .. Len(results) :
        /\ results[k].limit_heater \in LimitReasons
        /\ results[k].limit_cooler \in LimitReasons
        /\ results[k].limit_oil_jacket \in LimitReasons \ {"device"}
        /\ results[k].limit_jacket_reactor \in LimitReasons \ {"device"}

(* C23 witness: a record whose heater is held by its device cap while both *)
(* uncapped exchangers transfer heat, the oil-to-jacket one limited by a   *)
(* flow candidate.                                                         *)
C23_Witness ==
    /\ Logged
    /\ LastRow.limit_heater = "device"
    /\ LastRow.limit_oil_jacket \in {"hot flow", "cold flow"}
    /\ LastRow.limit_jacket_reactor \in {"area", "hot flow", "cold flow"}

(* The columns of the results dictionary.                                  *)
Columns ==
    {"time", "T_oil_out_heater", "T_oil_after_pipe_to_jacket",
     "T_oil_after_jacket", "T_oil_after_pipe_to_heater", "T_jacket",
     "T_reactor", "Q_heater", "Q_cooler", "Q_oil_jacket", "Q_jacket_reactor",
     "Q_pipe_to_jacket", "Q_pipe_to_heater", "Q_jacket_loss",
     "Q_reactor_loss", "limit_heater", "limit_cooler", "limit_oil_jacket",
     "limit_jacket_reactor", "Q_total_loss"}

(* C24: the records are append-only: a timestep appends exactly one value  *)
(* to every column, so all columns keep the length of the number of        *)
(* timesteps completed, and leaves every value appended earlier as it was; *)
(* nothing else touches the records.                                       *)
C24_AppendOnly ==
    [][/\ t' # t =>
            /\ Len(results') = Len(results) + 1
            /\ \A k \in 1 .. Len(results) : results'[k] = results[k]
            /\ \A k \in 1 .. Len(results') : DOMAIN results'[k] = Columns
            /\ Len(results') * dt = t'
       /\ t' = t => results' = results]_vars

(* C24 witness: the finished run: as many complete records as timesteps,   *)
(* the first one still the record of t = 0, the reactor warmer at the end. *)
C24_Witness ==
    /\ pc = "done"
    /\ Len(results) * dt = end_time
    /\ \A k \in 1 .. Len(results) : DOMAIN results[k] = Columns
    /\ results[1].time = 0
    /\ results[1] # LastRow
    /\ RLt(results[1].T_reactor, LastRow.T_reactor)

(* C26: under a valid configuration the driver reaches no error state:    *)
(* the process state is always one of heating, reaction, cooling, and      *)
(* whenever it is reaction (or past it) reaction_start_time has been set,  *)
(* to a timestep already run, so the hold test t - reaction_start_time is  *)
(* never evaluated on an unset start time.                                 *)
C26_NoErrorState ==
    /\ ~ConfigInvalid
    /\ pc \in {"loop", "done"}
    /\ status \in {"heating", "reaction", "cooling"}
    /\ status = "heating" => reaction_start_time = None
    /\ status \in {"reaction", "cooling"} =>
          /\ reaction_start_time # None
          /\ reaction_start_time[1] \in {(k - 1) * dt : k \in 1 .. Len(results)}

(* C26 witness: a timestep that started in reaction and evaluated the hold *)
(* test on the start time stamped at an earlier timestep.                  *)
C26_Witness ==
    /\ Logged
    /\ status = "reaction"
    /\ reaction_start_time # None
    /\ LastRow.time - reaction_start_time[1] >= dt
    /\ LastRow.time - reaction_start_time[1] < design.reaction_time

(* C28: the oil-to-jacket and jacket-to-reactor exchanges are              *)
(* one-directional: every record has Q_oil_jacket >= 0 and                 *)
(* Q_jacket_reactor >= 0, and in a timestep where the oil reaching the     *)
(* jacket is not more than approach_temp hotter than the jacket, step 4    *)
(* reports "no transfer" and leaves the oil and T_jacket as they were      *)
(* (step 5 works on the jacket temperature the timestep started with), so  *)
(* cooled oil takes no heat from the jacket or the reactor.                *)
C28_JacketOneDirectional ==
    [][t' # t =>
        /\ RLe(Zero, results'[Len(results')].Q_oil_jacket)
        /\ RLe(Zero, results'[Len(results')].Q_jacket_reactor)
        /\ RLe(RSub(results'[Len(results')].T_oil_after_pipe_to_jacket, T_jacket),
               approach_temp) =>
              /\ results'[Len(results')].limit_oil_jacket = "no transfer"
              /\ results'[Len(results')].Q_oil_jacket = Zero
              /\ results'[Len(results')].T_oil_after_jacket
                    = results'[Len(results')].T_oil_after_pipe_to_jacket
              /\ \E jr \in {calculate_heat_transfer(T_jacket, T_reactor,
                                thermal_mass.jacket, thermal_mass.reactor,
                                None, "jacket_reactor")} :
                    /\ results'[Len(results')].Q_jacket_reactor = jr.Q
                    /\ results'[Len(results')].T_jacket
                          = fl(calculate_insulation_loss("jacket",
                                  fl(jr.T_hot_out)).T_updated)
                    /\ results'[Len(results')].T_reactor
                          = fl(calculate_insulation_loss("reactor",
                                  fl(jr.T_cold_out)).T_updated)]_vars

(* C28 witness: a cooling timestep in which the oil, cooled below the      *)
(* jacket it reaches, exchanges nothing with it and passes unchanged.      *)
C28_Witness ==
    /\ Len(results) > 1
    /\ status = "cooling"
    /\ RLt(Zero, LastRow.Q_cooler)
    /\ RLt(LastRow.T_oil_after_pipe_to_jacket,
           results[Len(results) - 1].T_jacket)
    /\ LastRow.limit_oil_jacket = "no transfer"
    /\ LastRow.Q_oil_jacket = Zero
    /\ LastRow.T_oil_after_jacket = LastRow.T_oil_after_pipe_to_jacket

(* C29: in a timestep executed in heating or reaction whose start-of-step  *)
(* reactor temperature is at least reactor_max_temp + 5 (controller error  *)
(* <= 0) the heater adds no heat: Q_heater = 0, limit_heater is            *)
(* "no transfer" and the oil leaves step 2 at the temperature it entered.  *)
C29_HeaterOffAboveSetpoint ==
    [][(t' # t /\ status' \in {"heating", "reaction"}
          /\ RLe(I(design.reactor_max_temp + 5), T_reactor)) =>
            /\ results'[Len(results')].Q_heater = Zero
            /\ results'[Len(results')].limit_heater = "no transfer"
            /\ results'[Len(results')].T_oil_out_heater = T_oil]_vars

(* C29 witness: a reaction timestep that started with the reactor above    *)
(* the set point, after timesteps in which the heater delivered heat, and  *)
(* whose heater stayed off.                                                *)
C29_Witness ==
    /\ Len(results) > 1
    /\ status = "reaction"
    /\ RLt(I(design.reactor_max_temp + 5), ReactorAtStart)
    /\ LastRow.Q_heater = Zero
    /\ LastRow.limit_heater = "no transfer"
    /\ LastRow.T_oil_out_heater = OilIntoStep2
    /\ \E k \in 1 .. Len(results) : RLt(Zero, results[k].Q_heater)

(* C30: with the script's default configuration and every node starting   *)
(* at ambient, each temperature of each record (the four oil stages,       *)
(* T_jacket, T_reactor) lies between cooling_water_temp and oil_max_temp,  *)
(* and T_jacket and T_reactor are never below ambient_temp.                *)
C30_TemperaturesBounded ==
    Logged =>
        /\ \A c \in {"T_oil_out_heater", "T_oil_after_pipe_to_jacket",
                      "T_oil_after_jacket", "T_oil_after_pipe_to_heater",
                      "T_jacket", "T_reactor"} :
              /\ RLe(I(design.cooling_water_temp), LastRow[c])
              /\ RLe(LastRow[c], I(design.oil_max_temp))
        /\ RLe(I(design.ambient_temp), LastRow.T_jacket)
        /\ RLe(I(design.ambient_temp), LastRow.T_reactor)

(* C30 witness: late in cooling the cooler has nothing left to take: the   *)
(* oil leaves it at cooling_water_temp, the lower bound, while jacket and  *)
(* reactor are still far above ambient.                                    *)
C30_Witness ==
    /\ Logged
    /\ status = "cooling"
    /\ LastRow.limit_cooler = "no transfer"
    /\ RLe(LastRow.T_oil_out_heater, I(design.cooling_water_temp))
    /\ RLt(I(design.ambient_temp + 100), LastRow.T_jacket)
    /\ RLt(I(design.ambient_temp + 100), LastRow.T_reactor)

(* C2: in every timestep executed in cooling the oil leaves step 2 at the  *)
(* hot-side outlet of the cooler exchange, T_oil_in - Q_cooler*dt/cap of   *)
(* the oil flow, and at T_oil_in unchanged when the cooler reports         *)
(* "no transfer".                                                          *)
C2_CoolerHotOutlet ==
    (Logged /\ status = "cooling") =>
        /\ LastRow.T_oil_out_heater
             = fl(RSub(OilIntoStep2,
                       RDiv(RMul(LastRow.Q_cooler, I(dt)), thermal_mass.flow)))
        /\ LastRow.limit_cooler = "no transfer" =>
             LastRow.T_oil_out_heater = OilIntoStep2

-----------------------------------------------------------------------------
(* Properties of calculate_heat_transfer (SpecExchange).  The quantities   *)
(* below are written from the arguments of the call, not from the          *)
(* function's own intermediate values.                                     *)
ExchangeReturned == call.fn = "calculate_heat_transfer" /\ pc = "returned"

ArgGap == RSub(call.T_hot_in, call.T_cold_in)
ArgDrive == RSub(ArgGap, approach_temp)
ArgUA == RMul(design.U_values[call.Exchanger_name],
              design.heat_exchange_areas[call.Exchanger_name])
CandArea == RMul(ArgUA, ArgDrive)
CandHot == RDiv(RMul(I(call.thermal_mass_hot), ArgDrive), I(dt))
CandCold == RDiv(RMul(I(call.thermal_mass_cold), ArgDrive), I(dt))
CandFlowMin == RMin(CandArea, RMin(CandHot, CandCold))
HasCap == call.max_duty # None
CapValue == I(call.max_duty[1])
Transfers == ExchangeReturned /\ RLt(Zero, ArgDrive)

(* C3: whenever hot_in - cold_in <= approach_temp the exchange returns     *)
(* Q = 0, both inlet temperatures unchanged and the reason "no transfer",  *)
(* whatever the capacitances and the device cap.                           *)
C3_NoTransferBoundary ==
    (ExchangeReturned /\ RLe(ArgGap, approach_temp)) =>
        /\ ret.Q = Zero
        /\ ret.T_hot_out = call.T_hot_in
        /\ ret.T_cold_out = call.T_cold_in
        /\ ret.reason = "no transfer"

(* C3 witness: a call exactly on the boundary, with a device cap set.      *)
C3_Witness ==
    /\ ExchangeReturned
    /\ ArgGap = approach_temp
    /\ HasCap
    /\ ret.reason = "no transfer"

(* C4: with a positive driving force the realized duty is the minimum of   *)
(* the area, hot-flow and cold-flow candidates and of the device cap when  *)
(* one is configured.                                                      *)
C4_DutyIsMinimum ==
    Transfers =>
        ret.Q = (IF HasCap THEN RMin(CandFlowMin, CapValue) ELSE CandFlowMin)

(* C4 witness: the cold-flow candidate is the strict minimum of the four.  *)
C4_Witness ==
    /\ Transfers
    /\ HasCap
    /\ RLt(CandCold, CandArea) /\ RLt(CandCold, CandHot) /\ RLt(CandCold, CapValue)
    /\ ret.Q = CandCold

(* C5: the reason follows the fixed precedence: "area" is the baseline,    *)
(* "hot flow" only if Q_hot < Q_area, "cold flow" only if Q_cold is below   *)
(* the minimum so far, "device" only if the resulting duty exceeds the cap. *)
C5_ReasonPrecedence ==
    Transfers =>
        ret.reason =
            (IF HasCap /\ RLt(CapValue, CandFlowMin) THEN "device"
             ELSE IF RLt(CandCold, RMin(CandArea, CandHot)) THEN "cold flow"
             ELSE IF RLt(CandHot, CandArea) THEN "hot flow"
             ELSE "area")

(* C5 witness: Q_area = Q_hot, Q_cold strictly below both, no device cap   *)
(* (the 500, 500, 300 case): the reason is "cold flow".                    *)
C5_Witness ==
    /\ Transfers
    /\ ~HasCap
    /\ CandArea = CandHot
    /\ RLt(CandCold, CandArea)
    /\ ret.reason = "cold flow"

(* The three ties between consecutively checked candidates.                *)
TieHotArea == Transfers /\ CandHot = CandArea
TieColdMin == Transfers /\ CandCold = RMin(CandArea, CandHot)
TieDevice == Transfers /\ HasCap /\ CapValue = CandFlowMin

(* C6 as stated: on a tie of two consecutively checked candidates the      *)
(* recorded reason is the later-checked one of the pair (when no later     *)
(* check replaces it).                                                     *)
C6_LaterOnTie ==
    /\ (TieHotArea /\ RLt(CandHot, CandCold)
            /\ (HasCap => RLt(CandHot, CapValue))) => ret.reason = "hot flow"
    /\ (TieColdMin /\ (HasCap => RLt(CandCold, CapValue))) =>
            ret.reason = "cold flow"
    /\ TieDevice => ret.reason = "device"

(* C6 amended: on a tie of two consecutively checked candidates the        *)
(* recorded reason is never the later-checked one of the pair: the reason  *)
(* standing before the tied comparison is kept.                            *)
C6_EarlierOnTie ==
    /\ TieHotArea => ret.reason # "hot flow"
    /\ TieColdMin => ret.reason # "cold flow"
    /\ TieDevice => ret.reason # "device"
    /\ (TieHotArea /\ RLt(CandHot, CandCold)
            /\ (HasCap => RLt(CandHot, CapValue))) => ret.reason = "area"

(* C6 witness: the running duty equals the device cap and the reason       *)
(* stays with the flow candidate that set it.                              *)
C6_Witness ==
    /\ TieDevice
    /\ TieColdMin
    /\ RLt(CandHot, CandArea)
    /\ ret.reason = "hot flow"

(* C7: a device cap below the area-limited and both flow-limited           *)
(* candidates gives Q = duty cap and the reason "device".                  *)
C7_DeviceCapDominates ==
    (Transfers /\ HasCap /\ RLt(CapValue, CandFlowMin)) =>
        (ret.Q = CapValue /\ ret.reason = "device")

(* C7 witness: a positive cap below all three candidates.                  *)
C7_Witness ==
    /\ Transfers
    /\ HasCap
    /\ RLt(Zero, CapValue)
    /\ RLt(CapValue, CandFlowMin)
    /\ ret.reason = "device"

(* C8: without a device cap, Q*dt = cap_hot*(hot_in - hot_out)             *)
(*                                = cap_cold*(cold_out - cold_in).         *)
C8_EnergyConserved ==
    (ExchangeReturned /\ ~HasCap) =>
        /\ RMul(ret.Q, I(dt))
             = RMul(I(call.thermal_mass_hot), RSub(call.T_hot_in, ret.T_hot_out))
        /\ RMul(ret.Q, I(dt))
             = RMul(I(call.thermal_mass_cold), RSub(ret.T_cold_out, call.T_cold_in))

(* C8 witness: heat is exchanged between sides of different capacitance    *)
(* over a timestep longer than one second.                                 *)
C8_Witness ==
    /\ Transfers
    /\ ~HasCap
    /\ call.thermal_mass_hot # call.thermal_mass_cold
    /\ dt > 1
    /\ RLt(Zero, ret.Q)

(* C9: with a device cap absent or non-negative the duty is never negative *)
(* and heat never moves from cold to hot.                                  *)
C9_NoReverseTransfer ==
    (ExchangeReturned /\ (HasCap => call.max_duty[1] >= 0)) =>
        /\ RLe(Zero, ret.Q)
        /\ RLe(ret.T_hot_out, call.T_hot_in)
        /\ RLe(call.T_cold_in, ret.T_cold_out)

(* C9 witness: a capped call that moves heat and cools the hot side.       *)
C9_Witness ==
    /\ Transfers
    /\ HasCap
    /\ call.max_duty[1] >= 0
    /\ RLt(Zero, ret.Q)
    /\ RLt(ret.T_hot_out, call.T_hot_in)
    /\ RLt(call.T_cold_in, ret.T_cold_out)

(* C27: whenever the exchange transfers heat (dT > 0, positive            *)
(* capacitances, device cap absent or non-negative) neither outlet passes  *)
(* the opposite inlet reduced by the approach: hot_out >= cold_in +        *)
(* approach_temp and cold_out <= hot_in - approach_temp, whichever         *)
(* candidate limits the duty, the device cap included.                     *)
C27_OutletsKeepApproach ==
    (Transfers /\ call.thermal_mass_hot > 0 /\ call.thermal_mass_cold > 0
               /\ (HasCap => call.max_duty[1] >= 0)) =>
        /\ RLe(RAdd(call.T_cold_in, approach_temp), ret.T_hot_out)
        /\ RLe(ret.T_cold_out, RSub(call.T_hot_in, approach_temp))

(* C27 witness: the hot-flow candidate limits the duty over a timestep     *)
(* longer than one second, and the hot outlet lands exactly on the cold    *)
(* inlet plus the approach.                                                *)
C27_Witness ==
    /\ Transfers
    /\ HasCap
    /\ call.max_duty[1] >= 0
    /\ dt > 1
    /\ ret.reason = "hot flow"
    /\ ret.T_hot_out = RAdd(call.T_cold_in, approach_temp)
    /\ RLt(ret.T_cold_out, RSub(call.T_hot_in, approach_temp))

-----------------------------------------------------------------------------
(* Properties of both engine functions (SpecEngine).                       *)

(* C25: calculate_heat_transfer and calculate_insulation_loss are pure: a  *)
(* call changes none of T_oil, T_jacket, T_reactor, the process state,     *)
(* reaction_start_time, the configuration, the thermal masses or the       *)
(* records; what it computes is in its return value only.                  *)
C25_EngineIsPure ==
    [][(pc = "engine" /\ pc' = "returned") =>
          /\ T_oil' = T_oil /\ T_jacket' = T_jacket /\ T_reactor' = T_reactor
          /\ status' = status
          /\ reaction_start_time' = reaction_start_time
          /\ config' = config
          /\ thermal_mass' = thermal_mass
          /\ results' = results
          /\ t' = t]_vars

(* C25 witness: an exchange called with the oil node's temperature as its  *)
(* hot inlet has returned a lower hot outlet, and the oil node still holds *)
(* the inlet value.                                                        *)
C25_Witness ==
    /\ ExchangeReturned
    /\ call.T_hot_in = T_oil
    /\ RLt(Zero, ret.Q)
    /\ RLt(ret.T_hot_out, T_oil)

-----------------------------------------------------------------------------
(* Properties of calculate_insulation_loss (SpecInsulate).                 *)
InsulateReturned == call.fn = "calculate_insulation_loss" /\ pc = "returned"
BelowAmbient == InsulateReturned /\ RLt(call.T_current, I(design.ambient_temp))

(* C10: for every node and every T_current below ambient the loss is       *)
(* U*A*(T_current - ambient_temp), negative, and T_updated is strictly     *)
(* above T_current.                                                        *)
C10_InsulationSign ==
    BelowAmbient =>
        /\ ret.Q_loss
             = RMul(RMul(design.U_values[key_outside(call.component_name)],
                         design.heat_exchange_areas[key_outside(call.component_name)]),
                    RSub(call.T_current, I(design.ambient_temp)))
        /\ RLt(ret.Q_loss, Zero)
        /\ RLt(call.T_current, ret.T_updated)

(* C10 witness: the flowing pipe node below ambient gains heat.            *)
C10_Witness ==
    /\ BelowAmbient
    /\ call.component_name = "pipe"
    /\ RLt(ret.Q_loss, Zero)

====
